---- MODULE Spec2Model ----
(***************************************************************************)
(* A model of the YOLOv4 pipeline object of yolov4/tf/__init__.py (and of  *)
(* the parts yolov4/tflite/__init__.py shares with it): its configuration  *)
(* properties, make_model / load_weights, compile / load_dataset and the   *)
(* candidate concatenation of predict.                                     *)
(*                                                                         *)
(* Conventions                                                             *)
(*  - a numpy array is a record [shape, dtype, data] with data the flat    *)
(*    C-order (row-major) buffer;                                          *)
(*  - a Python value handed to a setter is a record [type, shape, data];   *)
(*  - xyscale factors and probabilities are fixed-point, in hundredths     *)
(*    (1.05 is 105);                                                       *)
(*  - interpreter is the field of the TFLite pipeline, with the tensor     *)
(*    indices load_tflite stores beside it;                                *)
(*  - last = [op, arg, err] is the call made last and the exception it     *)
(*    raised ("none" when it returned).                                    *)
(***************************************************************************)
EXTENDS Integers, Sequences, FiniteSets, TLC

VARIABLES tiny, anchors, input_size, strides, xyscales, batch_size,
          subdivision, classes, has_weights, model, interpreter, dataset,
          targets, net_out, candidates, pred_bboxes, last, raised

vars == <<tiny, anchors, input_size, strides, xyscales, batch_size,
          subdivision, classes, has_weights, model, interpreter, dataset,
          targets, net_out, candidates, pred_bboxes, last, raised>>

cfgVars == <<anchors, input_size, strides, xyscales>>
trainVars == <<batch_size, subdivision, dataset, targets>>
modelVars == <<classes, has_weights, model, interpreter>>
predVars == <<net_out, candidates, pred_bboxes>>

\* None, a record so that it compares with the records the fields hold.
None == [type |-> "NoneType"]

(***************************************************************************)
(* numpy                                                                   *)
(***************************************************************************)
RECURSIVE Prod(_)
Prod(s) == IF s = <<>> THEN 1 ELSE Head(s) * Prod(Tail(s))

Abs(x) == IF x < 0 THEN -x ELSE x

\* The spacing of float32 values around the integer x: 1 up to 2^24, then
\* doubling with every further binary digit of x.
RECURSIVE Ulp32(_)
Ulp32(x) == IF Abs(x) <= 16777216 THEN 1 ELSE 2 * Ulp32(x \div 2)

\* astype(np.float32) of an integer: the nearest float32, ties to even.
Float32(x) ==
    LET u == Ulp32(x)
        lo == (x \div u) * u
        r == x - lo
    IN IF 2 * r < u THEN lo
       ELSE IF 2 * r > u THEN lo + u
       ELSE IF (lo \div u) % 2 = 0 THEN lo ELSE lo + u

\* np.array(list_or_tuple): the nested sequence as an array of its own shape.
NpArray(v) == [shape |-> v.shape, dtype |-> v.dtype, data |-> v.data]

AsType32(a) ==
    [shape |-> a.shape, dtype |-> "float32",
     data |-> [i \in 1..Len(a.data) |-> Float32(a.data[i])]]

CanReshape(a, shape) == Prod(a.shape) = Prod(shape)

\* ndarray.reshape keeps the C-order buffer and replaces the shape.
Reshape(a, shape) == [shape |-> shape, dtype |-> a.dtype, data |-> a.data]

PyList(shape, data) ==
    [type |-> "list", shape |-> shape, dtype |-> "int64", data |-> data]

PyTuple(shape, data) ==
    [type |-> "tuple", shape |-> shape, dtype |-> "int64", data |-> data]

NdArray(shape, data) ==
    [type |-> "ndarray", shape |-> shape, dtype |-> "int64", data |-> data]

\* A value that is neither list, tuple nor ndarray (None, a dict, a range).
PyOther == [type |-> "NoneType", shape |-> <<>>, dtype |-> "object", data |-> <<>>]

(***************************************************************************)
(* Default configuration, YOLOv4.__init__                                  *)
(***************************************************************************)
TinyAnchorList == <<23, 27, 37, 58, 81, 82, 81, 82, 135, 169, 344, 319>>

FullAnchorList ==
    <<12, 16, 19, 36, 40, 28, 36, 75, 76, 55, 72, 146, 142, 110, 192, 243,
      459, 401>>

DefaultAnchors(t) ==
    IF t THEN PyList(<<2, 3, 2>>, TinyAnchorList)
    ELSE PyList(<<3, 3, 2>>, FullAnchorList)

DefaultStrides(t) ==
    IF t THEN PyList(<<2>>, <<16, 32>>) ELSE PyList(<<3>>, <<8, 16, 32>>)

DefaultXYScales(t) ==
    IF t THEN [PyList(<<2>>, <<105, 105>>) EXCEPT !.dtype = "float64"]
    ELSE [PyList(<<3>>, <<120, 110, 105>>) EXCEPT !.dtype = "float64"]

DefaultBatchSize == 32

DefaultSubdivision == 16

DefaultInputSize == 608

\* The number of output scales of the topology variant.
NumScales(t) == IF t THEN 2 ELSE 3

(***************************************************************************)
(* Property setters                                                        *)
(***************************************************************************)
\* anchors.setter, first statement: what self._anchors is bound to before
\* the reshape.  A value of any other type binds nothing.
AnchorsBound(cur, v) ==
    IF v.type \in {"list", "tuple"} THEN NpArray(v)
    ELSE IF v.type = "ndarray" THEN NpArray(v)
    ELSE cur

\* anchors.setter: the new self._anchors and the exception raised.  The
\* reshape raises ValueError after self._anchors was already rebound.
AnchorsSetter(t, cur, v) ==
    LET a == AnchorsBound(cur, v)
        shape == IF t THEN <<2, 3, 2>> ELSE <<3, 3, 2>>
    IN IF CanReshape(a, shape)
       THEN [anchors |-> Reshape(AsType32(a), shape), err |-> "none"]
       ELSE [anchors |-> a, err |-> "ValueError"]

\* input_size.setter: Python's %, whose result has the sign of the divisor.
InputSizeAccepted(size) == size % 32 = 0

\* strides.setter and xyscales.setter: no conversion, no check of the length.
ArraySetter(cur, v) ==
    IF v.type \in {"list", "tuple"} THEN NpArray(v)
    ELSE IF v.type = "ndarray" THEN NpArray(v)
    ELSE cur

(***************************************************************************)
(* Inputs of the configuration calls                                       *)
(***************************************************************************)
AltFullAnchorList ==
    <<10, 13, 16, 30, 33, 23, 30, 61, 62, 45, 59, 119, 116, 90, 156, 198,
      373, 326>>

AltTinyAnchorList == <<10, 14, 23, 27, 37, 58, 81, 82, 135, 169, 344, 319>>

BigAnchorList == [AltFullAnchorList EXCEPT ![1] = 16777217]

AnchorInputs ==
    { PyList(<<18>>, AltFullAnchorList),
      NdArray(<<18>>, BigAnchorList),
      PyList(<<12>>, AltTinyAnchorList),
      PyTuple(<<17>>, SubSeq(AltFullAnchorList, 1, 17)),
      PyOther }

InputSizeInputs == {-32, 0, 100, 416}

StrideInputs ==
    { PyList(<<3>>, <<8, 16, 32>>), PyList(<<2>>, <<16, 32>>), PyOther }

XYScaleInputs ==
    { [PyList(<<3>>, <<120, 110, 105>>) EXCEPT !.dtype = "float64"],
      [NdArray(<<2>>, <<105, 105>>) EXCEPT !.dtype = "float64"],
      PyOther }

(***************************************************************************)
(* The state after YOLOv4(tiny=t)                                          *)
(***************************************************************************)
\* The fields of the pipeline after YOLOv4(tiny=t).
Fields(t) ==
    /\ tiny = t
    /\ anchors = AnchorsSetter(t, None, DefaultAnchors(t)).anchors
    /\ batch_size = DefaultBatchSize
    /\ subdivision = DefaultSubdivision
    /\ classes = None
    /\ has_weights = FALSE
    /\ input_size = DefaultInputSize
    /\ model = None
    /\ interpreter = None
    /\ strides = ArraySetter(None, DefaultStrides(t))
    /\ xyscales = ArraySetter(None, DefaultXYScales(t))

Construct(t) ==
    /\ Fields(t)
    /\ dataset = None
    /\ targets = None
    /\ net_out = None
    /\ candidates = None
    /\ pred_bboxes = None
    /\ last = [op |-> "__init__", arg |-> t, err |-> "none"]
    /\ raised = FALSE

Init == \E t \in BOOLEAN : Construct(t)

Called(op, arg, err) ==
    /\ last' = [op |-> op, arg |-> arg, err |-> err]
    /\ raised' = (raised \/ err # "none")

SetAnchors(v) ==
    LET r == AnchorsSetter(tiny, anchors, v)
    IN /\ anchors' = r.anchors
       /\ Called("anchors", v, r.err)
       /\ UNCHANGED <<tiny, input_size, strides, xyscales, trainVars,
                      modelVars, predVars>>

SetInputSize(size) ==
    /\ input_size' = IF InputSizeAccepted(size) THEN size ELSE input_size
    /\ Called("input_size", size,
              IF InputSizeAccepted(size) THEN "none" ELSE "ValueError")
    /\ UNCHANGED <<tiny, anchors, strides, xyscales, trainVars, modelVars,
                   predVars>>

SetStrides(v) ==
    /\ strides' = ArraySetter(strides, v)
    /\ Called("strides", v, "none")
    /\ UNCHANGED <<tiny, anchors, input_size, xyscales, trainVars,
                   modelVars, predVars>>

SetXYScales(v) ==
    /\ xyscales' = ArraySetter(xyscales, v)
    /\ Called("xyscales", v, "none")
    /\ UNCHANGED <<tiny, anchors, input_size, strides, trainVars,
                   modelVars, predVars>>

Next ==
    \/ \E v \in AnchorInputs : SetAnchors(v)
    \/ \E size \in InputSizeInputs : SetInputSize(size)
    \/ \E v \in StrideInputs : SetStrides(v)
    \/ \E v \in XYScaleInputs : SetXYScales(v)

Spec == Init /\ [][Next]_vars

(***************************************************************************)
(* classes, make_model                                                     *)
(***************************************************************************)
MaxClasses == 2

\* A dict of n names, a path to a names file of n lines, anything else.
ClassInputs ==
    {[type |-> "dict", len |-> n] : n \in 1..MaxClasses}
        \cup {[type |-> "str", len |-> n] : n \in 1..MaxClasses}
        \cup {[type |-> "int", len |-> 0]}

\* classes.setter: the dict itself, or the dict read from the names file.
ClassesSetter(cur, data) ==
    IF data.type \in {"str", "dict"}
    THEN [classes |-> [len |-> data.len], err |-> "none"]
    ELSE [classes |-> cur, err |-> "TypeError"]

\* The convolution layers of the network in construction order, each with
\* its batch-normalisation flag, its number of filters and the number of
\* kernel weights per filter.  The output layer has no batch normalisation
\* and its width grows with the number of classes.
Layers(t, num_classes) ==
    IF t
    THEN << [bn |-> TRUE, filters |-> 1, size |-> 1],
            [bn |-> FALSE, filters |-> num_classes, size |-> 1] >>
    ELSE << [bn |-> TRUE, filters |-> 1, size |-> 1],
            [bn |-> TRUE, filters |-> 1, size |-> 2],
            [bn |-> FALSE, filters |-> num_classes, size |-> 1] >>

\* The floats a layer takes from a weight file.
ParamCount(layer) ==
    (IF layer.bn THEN 4 ELSE 1) * layer.filters + layer.filters * layer.size

RECURSIVE TotalParams(_)
TotalParams(layers) ==
    IF layers = <<>> THEN 0
    ELSE ParamCount(Head(layers)) + TotalParams(Tail(layers))

\* The parameter block of one layer from the floats read for it: with batch
\* normalisation bias, scale, mean, variance, then the kernel; without it
\* the bias, then the kernel.
Block(layer, vals) ==
    LET n == layer.filters
        seg(k) == [i \in 1..n |-> vals[k * n + i]]
    IN IF layer.bn
       THEN [bias |-> seg(0), scale |-> seg(1), mean |-> seg(2),
             variance |-> seg(3),
             kernel |-> [i \in 1..(n * layer.size) |-> vals[4 * n + i]]]
       ELSE [bias |-> seg(0),
             kernel |-> [i \in 1..(n * layer.size) |-> vals[n + i]]]

\* The parameters of a layer as its initialiser leaves them: every float is
\* written 0, whatever the initialiser drew.
InitBlock(layer) == Block(layer, [i \in 1..ParamCount(layer) |-> 0])

InitParams(layers) == [i \in 1..Len(layers) |-> InitBlock(layers[i])]

\* yolov4.YOLOv4 / yolov4.YOLOv4Tiny built on the pipeline's configuration.
FreshModel(t, cls, isz, anc, xys) ==
    [tiny |-> t, num_classes |-> cls.len, input_size |-> isz,
     anchors |-> anc, xyscales |-> xys,
     params |-> InitParams(Layers(t, cls.len)), loss |-> None,
     fit |-> None]

\* A make_model that builds the network only when none is installed yet.
MakeModelOnlyOnce(s) ==
    IF s.classes = None
    THEN [model |-> s.model, has_weights |-> FALSE, err |-> "TypeError"]
    ELSE [model |-> IF s.model = None
                    THEN FreshModel(s.tiny, s.classes, s.input_size,
                                    s.anchors, s.xyscales)
                    ELSE s.model,
          has_weights |-> FALSE, err |-> "none"]

\* make_model on the state s = [tiny, classes, input_size, anchors,
\* xyscales, model, has_weights]: the flag is cleared first, len(None)
\* raises TypeError before a model is assigned.
MakeModelResult(s) ==
    IF s.classes = None
    THEN [model |-> s.model, has_weights |-> FALSE, err |-> "TypeError"]
    ELSE [model |-> FreshModel(s.tiny, s.classes, s.input_size, s.anchors,
                               s.xyscales),
          has_weights |-> FALSE, err |-> "none"]

Self ==
    [tiny |-> tiny, classes |-> classes, input_size |-> input_size,
     anchors |-> anchors, xyscales |-> xyscales, model |-> model,
     has_weights |-> has_weights]

SetClasses(data) ==
    LET r == ClassesSetter(classes, data)
    IN /\ classes' = r.classes
       /\ Called("classes", data, r.err)
       /\ UNCHANGED <<tiny, cfgVars, trainVars, has_weights, model,
                      interpreter, predVars>>

MakeModel ==
    LET r == MakeModelResult(Self)
    IN /\ model' = r.model
       /\ has_weights' = r.has_weights
       /\ Called("make_model", None, r.err)
       /\ UNCHANGED <<tiny, cfgVars, trainVars, classes, interpreter,
                      predVars>>

(***************************************************************************)
(* load_weights and the darknet weight-file importer                       *)
(***************************************************************************)
\* The file header: version (3 x int32) and images seen (int64).
HeaderBytes == 20

FloatBytes == 4

MaxFloats == 16

\* A darknet weight file of `bytes` bytes whose i-th float is base + i.
WeightFiles ==
    {[kind |-> "darknet", bytes |-> b, base |-> s] :
        b \in {0, 10} \cup {HeaderBytes + FloatBytes * k + r :
                               k \in 0..MaxFloats, r \in {0, 2}},
        s \in {0, 100}}

\* A TensorFlow checkpoint: readable for this model or not.
Checkpoints == {[kind |-> "ckpt", ok |-> b] : b \in BOOLEAN}

WeightsTypes == {"yolo", "tf", "h5"}

FloatAt(file, i) == file.base + i

\* The whole floats the file holds after its header.
FloatsIn(file) ==
    IF file.bytes < HeaderBytes THEN 0
    ELSE (file.bytes - HeaderBytes) \div FloatBytes

\* The layers read one after the other from float number cursor + 1 on; a
\* layer the file is too short for ends the read.
RECURSIVE ReadLayers(_, _, _)
ReadLayers(layers, file, cursor) ==
    IF layers = <<>>
    THEN [err |-> "none", params |-> <<>>, cursor |-> cursor]
    ELSE LET n == ParamCount(Head(layers))
         IN IF cursor + n > FloatsIn(file)
            THEN [err |-> "FormatError", params |-> <<>>, cursor |-> cursor]
            ELSE LET rest == ReadLayers(Tail(layers), file, cursor + n)
                     vals == [i \in 1..n |-> FloatAt(file, cursor + i)]
                 IN [err |-> rest.err,
                     params |-> <<Block(Head(layers), vals)>> \o rest.params,
                     cursor |-> rest.cursor]

\* weights.load_weights(model, path, tiny): the model with the file's
\* parameters, or the model as it was and the error.
ImportWeights(mdl, file, t) ==
    IF mdl = None THEN [model |-> mdl, err |-> "AttributeError"]
    ELSE IF file.bytes < HeaderBytes
    THEN [model |-> mdl, err |-> "FormatError"]
    ELSE LET r == ReadLayers(Layers(t, mdl.num_classes), file, 0)
         IN IF r.err # "none" THEN [model |-> mdl, err |-> r.err]
            ELSE IF file.bytes > HeaderBytes + FloatBytes * r.cursor
            THEN [model |-> mdl, err |-> "FormatError"]
            ELSE [model |-> [mdl EXCEPT !.params = r.params],
                  err |-> "none"]

\* The parameters a readable checkpoint holds for the model.
CheckpointParams(mdl) ==
    LET layers == Layers(mdl.tiny, mdl.num_classes)
    IN [i \in 1..Len(layers) |->
           Block(layers[i], [j \in 1..ParamCount(layers[i]) |-> 1000 + j])]

\* self.model.load_weights(path) of Keras.
KerasLoadWeights(mdl, ckpt) ==
    IF mdl = None THEN [model |-> mdl, err |-> "AttributeError"]
    ELSE IF ~ckpt.ok THEN [model |-> mdl, err |-> "OSError"]
    ELSE [model |-> [mdl EXCEPT !.params = CheckpointParams(mdl)],
          err |-> "none"]

\* A load_weights that marks the pipeline whether or not the import raised.
HasWeightsEvenOnError(old, err) == TRUE

\* self._has_weights after load_weights: the assignment is the last
\* statement, reached unless the import raised.
HasWeightsAfterLoad(old, err) == IF err = "none" THEN TRUE ELSE old

\* A load_weights that always imports for the full topology.
LoadWeightsIgnoringTiny(s, path, type) ==
    LET r == IF type = "yolo" THEN ImportWeights(s.model, path, FALSE)
             ELSE IF type = "tf" THEN KerasLoadWeights(s.model, path)
             ELSE [model |-> s.model, err |-> "none"]
    IN [model |-> r.model,
        has_weights |-> HasWeightsAfterLoad(s.has_weights, r.err),
        err |-> r.err]

\* load_weights(path, weights_type) on the state s; any weights_type other
\* than "yolo" and "tf" loads nothing.
LoadWeightsResult(s, path, type) ==
    LET r == IF type = "yolo" THEN ImportWeights(s.model, path, s.tiny)
             ELSE IF type = "tf" THEN KerasLoadWeights(s.model, path)
             ELSE [model |-> s.model, err |-> "none"]
    IN [model |-> r.model,
        has_weights |-> HasWeightsAfterLoad(s.has_weights, r.err),
        err |-> r.err]

LoadWeights(path, type) ==
    LET r == LoadWeightsResult(Self, path, type)
    IN /\ model' = r.model
       /\ has_weights' = r.has_weights
       /\ Called("load_weights", [path |-> path, type |-> type], r.err)
       /\ UNCHANGED <<tiny, cfgVars, trainVars, classes, interpreter,
                      predVars>>

NextWeights ==
    \/ \E data \in ClassInputs : SetClasses(data)
    \/ MakeModel
    \/ \E path \in WeightFiles : LoadWeights(path, "yolo")
    \/ \E path \in Checkpoints : LoadWeights(path, "tf")
    \/ \E path \in Checkpoints : LoadWeights(path, "h5")

SpecWeights == Init /\ [][NextWeights]_vars

(***************************************************************************)
(* Training: batch_size, subdivision, compile, load_dataset                *)
(***************************************************************************)
MaxBatch == 3

BatchInputs == (1..MaxBatch) \cup {DefaultBatchSize}

SubdivisionInputs == (1..MaxBatch) \cup {DefaultSubdivision}

IouTypes == {"ciou", "giou"}

\* Python's a // b on integers with b > 0: the floor of the quotient.
FloorDiv(a, b) == a \div b

\* The batch_size argument of Dataset, YOLOv4Loss and model.fit.
MicroBatch(s) == FloorDiv(s.batch_size, s.subdivision)

TrainSelf ==
    [tiny |-> tiny, classes |-> classes, input_size |-> input_size,
     anchors |-> anchors, strides |-> strides, xyscales |-> xyscales,
     model |-> model, batch_size |-> batch_size,
     subdivision |-> subdivision]

\* compile: the loss is constructed first, then handed to the model, which
\* must exist.
CompileResult(s, iou_type) ==
    IF s.model = None THEN [model |-> s.model, err |-> "AttributeError"]
    ELSE [model |->
              [s.model EXCEPT !.loss = [batch_size |-> MicroBatch(s),
                                        iou_type |-> iou_type]],
          err |-> "none"]

\* A load_dataset that hands the Dataset the anchors of the first scale in
\* the place of every scale's.
LoadDatasetFirstScaleOnly(s, training) ==
    IF s.classes = None THEN [dataset |-> None, err |-> "TypeError"]
    ELSE [dataset |->
              [anchors |->
                   [shape |-> s.anchors.shape, dtype |-> s.anchors.dtype,
                    data |-> [i \in 1..Len(s.anchors.data) |->
                                 s.anchors.data[((i - 1) % 6) + 1]]],
               batch_size |-> MicroBatch(s),
               data_augmentation |-> training,
               input_size |-> s.input_size,
               num_classes |-> s.classes.len,
               strides |-> s.strides,
               xyscales |-> s.xyscales],
          err |-> "none"]

\* load_dataset: the Dataset built on the pipeline's configuration;
\* len(None) raises TypeError.
LoadDatasetResult(s, training) ==
    IF s.classes = None THEN [dataset |-> None, err |-> "TypeError"]
    ELSE [dataset |->
              [anchors |-> s.anchors,
               batch_size |-> MicroBatch(s),
               data_augmentation |-> training,
               input_size |-> s.input_size,
               num_classes |-> s.classes.len,
               strides |-> s.strides,
               xyscales |-> s.xyscales],
          err |-> "none"]

SetBatchSize(b) ==
    /\ batch_size' = b
    /\ Called("batch_size", b, "none")
    /\ UNCHANGED <<tiny, cfgVars, subdivision, dataset, targets, modelVars,
                   predVars>>

SetSubdivision(n) ==
    /\ subdivision' = n
    /\ Called("subdivision", n, "none")
    /\ UNCHANGED <<tiny, cfgVars, batch_size, dataset, targets, modelVars,
                   predVars>>

Compile(iou_type) ==
    LET r == CompileResult(TrainSelf, iou_type)
    IN /\ model' = r.model
       /\ Called("compile", iou_type, r.err)
       /\ UNCHANGED <<tiny, cfgVars, trainVars, classes, has_weights,
                      interpreter, predVars>>

\* The caller keeps the Dataset load_dataset returned; a call that raised
\* returns nothing.
LoadDataset(training) ==
    LET r == LoadDatasetResult(TrainSelf, training)
    IN /\ dataset' = IF r.err = "none" THEN r.dataset ELSE dataset
       /\ Called("load_dataset", training, r.err)
       /\ UNCHANGED <<tiny, cfgVars, batch_size, subdivision, targets,
                      modelVars, predVars>>

NextTrain ==
    \/ \E b \in BatchInputs : SetBatchSize(b)
    \/ \E n \in SubdivisionInputs : SetSubdivision(n)
    \/ SetClasses([type |-> "dict", len |-> 1])
    \/ MakeModel
    \/ \E iou_type \in IouTypes : Compile(iou_type)
    \/ LoadDataset(TRUE)

SpecTrain == Init /\ [][NextTrain]_vars

(***************************************************************************)
(* Training: fit                                                           *)
(***************************************************************************)
\* The parameters a training run leaves in the model.
TrainedParams(mdl) ==
    LET layers == Layers(mdl.tiny, mdl.num_classes)
    IN [i \in 1..Len(layers) |->
           Block(layers[i], [j \in 1..ParamCount(layers[i]) |-> 2000 + j])]

\* fit(data_set, epochs): self.model.fit with batch_size = batch_size //
\* subdivision and steps_per_epoch = subdivision.  It needs a model, Keras
\* needs the model compiled and data to train on.
FitResult(s, data_set, epochs) ==
    IF s.model = None THEN [model |-> s.model, err |-> "AttributeError"]
    ELSE IF s.model.loss = None
    THEN [model |-> s.model, err |-> "RuntimeError"]
    ELSE IF data_set = None THEN [model |-> s.model, err |-> "ValueError"]
    ELSE [model |->
              [s.model EXCEPT !.params = TrainedParams(s.model),
                              !.fit = [epochs |-> epochs,
                                       batch_size |-> MicroBatch(s),
                                       steps_per_epoch |-> s.subdivision]],
          err |-> "none"]

\* The caller trains on the Dataset the latest load_dataset returned.
Fit(epochs) ==
    LET r == FitResult(TrainSelf, dataset, epochs)
    IN /\ model' = r.model
       /\ Called("fit", epochs, r.err)
       /\ UNCHANGED <<tiny, cfgVars, trainVars, classes, has_weights,
                      interpreter, predVars>>

FitBatchInputs == {DefaultBatchSize, 2 * DefaultBatchSize}

FitSubdivisionInputs == {DefaultSubdivision, DefaultSubdivision \div 2}

NextFit ==
    \/ \E b \in FitBatchInputs : SetBatchSize(b)
    \/ \E n \in FitSubdivisionInputs : SetSubdivision(n)
    \/ SetClasses([type |-> "dict", len |-> 1])
    \/ MakeModel
    \/ Compile("ciou")
    \/ LoadDataset(TRUE)
    \/ Fit(1)

SpecFit == Init /\ [][NextFit]_vars

(***************************************************************************)
(* The Target Assigner of the Dataset load_dataset returns                 *)
(***************************************************************************)
Min(a, b) == IF a < b THEN a ELSE b

\* a / b < c / d for a, c >= 0 and b, d > 0, by the continued-fraction
\* expansion of both sides, exact and without a product.
RECURSIVE FracLess(_, _, _, _)
FracLess(a, b, c, d) ==
    IF a \div b # c \div d THEN a \div b < c \div d
    ELSE IF c % d = 0 THEN FALSE
    ELSE IF a % b = 0 THEN TRUE
    ELSE FracLess(d, c % d, b, a % b)

\* Intersection and union area of two boxes of the given shapes, both
\* centred at the origin; the union of degenerate boxes is floored at 1.
ShapeInter(w, h, aw, ah) == Min(w, aw) * Min(h, ah)

ShapeUnion(w, h, aw, ah) ==
    LET u == w * h + aw * ah - ShapeInter(w, h, aw, ah)
    IN IF u < 1 THEN 1 ELSE u

\* The (w, h) of anchor k (0-based, scale-major) of an anchors array.
AnchorW(anc, k) == anc.data[2 * k + 1]

AnchorH(anc, k) == anc.data[2 * k + 2]

NumAnchors(anc) == Len(anc.data) \div 2

\* Anchor j matches the box strictly better than anchor k.
BetterAnchor(anc, w, h, j, k) ==
    FracLess(ShapeInter(w, h, AnchorW(anc, k), AnchorH(anc, k)),
             ShapeUnion(w, h, AnchorW(anc, k), AnchorH(anc, k)),
             ShapeInter(w, h, AnchorW(anc, j), AnchorH(anc, j)),
             ShapeUnion(w, h, AnchorW(anc, j), AnchorH(anc, j)))

\* argmax of the shape-IoU over all anchors: the first index that no
\* other index beats.
BestAnchor(anc, w, h) ==
    CHOOSE k \in 0..(NumAnchors(anc) - 1) :
        /\ \A j \in 0..(NumAnchors(anc) - 1) : ~BetterAnchor(anc, w, h, j, k)
        /\ \A j \in 0..(k - 1) : BetterAnchor(anc, w, h, k, j)

\* The target slots of one image with one ground-truth box: the
\* responsible (scale, anchor) and the grid cell holding the box's centre.
AssignTargets(ds, box) ==
    LET k == BestAnchor(ds.anchors, box.w, box.h)
        scale == k \div 3
        stride == ds.strides.data[scale + 1]
    IN [box |-> box,
        responsible |-> {<<scale, k % 3>>},
        row |-> box.y \div stride,
        col |-> box.x \div stride]

BoxSides == {12, 40, 81, 82, 150, 400}

\* Ground-truth boxes (centre, width, height, class), in input pixels.
GroundTruths ==
    {[x |-> 300, y |-> 300, w |-> w, h |-> h, class_id |-> 0] :
        w \in BoxSides, h \in BoxSides}

\* One image drawn from the Dataset, with its targets.
NextBatch(box) ==
    /\ dataset # None
    /\ targets' = AssignTargets(dataset, box)
    /\ Called("next", box, "none")
    /\ UNCHANGED <<tiny, cfgVars, batch_size, subdivision, dataset,
                   modelVars, predVars>>

NextAssign ==
    \/ SetClasses([type |-> "dict", len |-> 1])
    \/ LoadDataset(TRUE)
    \/ \E box \in GroundTruths : NextBatch(box)

SpecAssign == Init /\ [][NextAssign]_vars

(***************************************************************************)
(* The Detection Post-Processor behind candidates_to_pred_bboxes           *)
(*                                                                         *)
(* A candidate is the row (x, y, w, h, conf, prob_0, prob_1, ...), a       *)
(* prediction the row (x, y, w, h, class_id, probability).  Both are rows  *)
(* of one float array: the number 1.0 is 100 in the score columns.         *)
(***************************************************************************)
Max(a, b) == IF a > b THEN a ELSE b

\* The product of two scores in hundredths.
ScoreProduct(a, b) == (a * b) \div 100

\* The class scores of a candidate row.
ClassScores(c) == SubSeq(c, 6, Len(c))

\* argmax of a non-empty sequence, 0-based, the first index on a tie.
ArgMax(seq) ==
    CHOOSE k \in 0..(Len(seq) - 1) :
        /\ \A j \in 1..Len(seq) : seq[j] <= seq[k + 1]
        /\ \A j \in 1..k : seq[j] < seq[k + 1]

\* The decoded (class_id, probability) of a candidate: the best class and
\* objectness x its score.
ToPred(c) ==
    LET k == ArgMax(ClassScores(c))
    IN <<c[1], c[2], c[3], c[4], k, ScoreProduct(c[5], ClassScores(c)[k + 1])>>

\* A post-processor that thresholds the objectness in the place of the
\* probability.
ClearsObjectnessThreshold(c, conf_threshold) == c[5] >= conf_threshold

\* Step 1: a candidate is discarded when its probability is below the
\* confidence threshold.
ClearsThreshold(c, conf_threshold) == ToPred(c)[6] >= conf_threshold

\* Twice the overlap of two intervals given by centre and length.
Overlap2(c1, l1, c2, l2) ==
    Max(0, Min(2 * c1 + l1, 2 * c2 + l2) - Max(2 * c1 - l1, 2 * c2 - l2))

\* Four times the intersection and the union area of two boxes; the union
\* of degenerate boxes is floored at 1.
Inter4(a, b) == Overlap2(a[1], a[3], b[1], b[3]) * Overlap2(a[2], a[4], b[2], b[4])

Union4(a, b) == Max(1, 4 * a[3] * a[4] + 4 * b[3] * b[4] - Inter4(a, b))

\* IoU(a, b) exceeds the suppression threshold (in hundredths).
IoUExceeds(a, b, iou_threshold) ==
    100 * Inter4(a, b) > iou_threshold * Union4(a, b)

RECURSIVE Filter(_, _, _)
\* The rows of seq kept by keep (a sequence of booleans), in order.
Filter(seq, keep, i) ==
    IF i > Len(seq) THEN <<>>
    ELSE (IF keep[i] THEN <<seq[i]>> ELSE <<>>) \o Filter(seq, keep, i + 1)

\* Greedy non-max suppression of the predictions of one class: the first
\* row of highest probability is emitted and the rows overlapping it above
\* the threshold are removed, until none is left.
RECURSIVE Nms(_, _)
Nms(boxes, iou_threshold) ==
    IF boxes = <<>> THEN <<>>
    ELSE LET best == ArgMax([i \in 1..Len(boxes) |-> boxes[i][6]]) + 1
             keep == [i \in 1..Len(boxes) |->
                         i # best
                         /\ ~IoUExceeds(boxes[best], boxes[i], iou_threshold)]
         IN <<boxes[best]>> \o Nms(Filter(boxes, keep, 1), iou_threshold)

\* The surviving predictions of classes k, k + 1, ..., concatenated.
RECURSIVE NmsPerClass(_, _, _, _)
NmsPerClass(preds, k, last_class, iou_threshold) ==
    IF k > last_class THEN <<>>
    ELSE Nms(Filter(preds, [i \in 1..Len(preds) |-> preds[i][5] = k], 1),
             iou_threshold)
         \o NmsPerClass(preds, k + 1, last_class, iou_threshold)

\* predict.candidates_to_pred_bboxes: threshold, group by class, suppress.
PostProcess(cands, conf_threshold, iou_threshold) ==
    LET kept == Filter(cands,
                       [i \in 1..Len(cands) |->
                           ClearsThreshold(cands[i], conf_threshold)], 1)
        preds == [i \in 1..Len(kept) |-> ToPred(kept[i])]
        last_class == IF cands = <<>> THEN 0 ELSE Len(cands[1]) - 6
    IN NmsPerClass(preds, 0, last_class, iou_threshold)

\* A prediction written as a candidate of a network with n classes:
\* objectness its probability, score 1 for its class.
AsCandidate(p, n) ==
    <<p[1], p[2], p[3], p[4], p[6]>>
        \o [k \in 1..n |-> IF k = p[5] + 1 THEN 100 ELSE 0]

\* A prediction row read as a candidate row as it stands: class_id lands
\* in the objectness column, probability in the score column of class 0.
ReadAsCandidate(p) == <<p[1], p[2], p[3], p[4], 100 * p[5], p[6]>>

(* Inputs *)
MaxCands == 3

NumClasses == 2

CandidateBoxes == {<<10, 10, 8, 8>>, <<12, 10, 8, 8>>, <<40, 40, 8, 8>>}

CandidateScores ==
    {<<100, 100, 0>>, <<50, 100, 0>>, <<50, 0, 100>>, <<50, 50, 50>>}

CandidateRows == {b \o sc : b \in CandidateBoxes, sc \in CandidateScores}

CandidateLists ==
    UNION {[1..n -> CandidateRows] : n \in 0..MaxCands}

ConfThresholds == {0, 50}

IouThresholds == {0, 50}

\* A constructed pipeline, a candidate list to post-process and the
\* thresholds the post-processor is configured with.
InitNMS ==
    \E cands \in CandidateLists, ct \in ConfThresholds,
       it \in IouThresholds :
        /\ Fields(FALSE)
        /\ dataset = None
        /\ targets = None
        /\ net_out = None
        /\ candidates = cands
        /\ pred_bboxes = None
        /\ last = [op |-> "__init__",
                   arg |-> [conf_threshold |-> ct, iou_threshold |-> it,
                            previous |-> None],
                   err |-> "none"]
        /\ raised = FALSE

\* YOLOv4.candidates_to_pred_bboxes(candidates).
CandidatesToPredBBoxes ==
    /\ last.op = "__init__"
    /\ pred_bboxes' = PostProcess(candidates, last.arg.conf_threshold,
                                  last.arg.iou_threshold)
    /\ Called("candidates_to_pred_bboxes", last.arg, "none")
    /\ UNCHANGED <<tiny, cfgVars, trainVars, modelVars, net_out, candidates>>

\* The post-processor run on its own output, the rows taken as they are.
Rerun ==
    /\ last.op # "__init__"
    /\ LET cands == [i \in 1..Len(pred_bboxes) |->
                        ReadAsCandidate(pred_bboxes[i])]
       IN /\ candidates' = cands
          /\ pred_bboxes' = PostProcess(cands, last.arg.conf_threshold,
                                        last.arg.iou_threshold)
    /\ Called("rerun", [last.arg EXCEPT !.previous = pred_bboxes], "none")
    /\ UNCHANGED <<tiny, cfgVars, trainVars, modelVars, net_out>>

\* The post-processor run on its own output, each prediction written back
\* as a candidate.
RerunAsCandidates ==
    /\ last.op # "__init__"
    /\ LET cands == [i \in 1..Len(pred_bboxes) |->
                        AsCandidate(pred_bboxes[i], NumClasses)]
       IN /\ candidates' = cands
          /\ pred_bboxes' = PostProcess(cands, last.arg.conf_threshold,
                                        last.arg.iou_threshold)
    /\ Called("rerun_as_candidates",
              [last.arg EXCEPT !.previous = pred_bboxes], "none")
    /\ UNCHANGED <<tiny, cfgVars, trainVars, modelVars, net_out>>

NextNMS ==
    \/ CandidatesToPredBBoxes
    \/ Rerun
    \/ RerunAsCandidates

SpecNMS == InitNMS /\ [][NextNMS]_vars

(***************************************************************************)
(* predict: the network outputs, their reshape and their concatenation     *)
(***************************************************************************)
\* The product of the entries of a reshape target other than its one -1.
Known(shape) == -Prod(shape)

\* reshape accepts a target with a -1 when the other entries divide the size.
CanInfer(a, shape) == Known(shape) > 0 /\ Prod(a.shape) % Known(shape) = 0

\* The target with the -1 replaced by the length reshape infers for it.
InferredShape(a, shape) ==
    [i \in 1..Len(shape) |->
        IF shape[i] = -1 THEN Prod(a.shape) \div Known(shape) ELSE shape[i]]

\* A reshape that makes one row of every grid cell in the place of one row
\* of every (grid cell, anchor).
ReshapeCandidatePerCell(candidate) ==
    LET grid_size == candidate.shape[2]
        shape == <<1, grid_size * grid_size, -1>>
    IN IF CanInfer(candidate, shape)
       THEN [array |-> Reshape(candidate, InferredShape(candidate, shape)),
             err |-> "none"]
       ELSE [array |-> None, err |-> "ValueError"]

\* The body of the loop of predict: grid_size = candidate.shape[1] and
\* reshape(candidate, (1, grid_size * grid_size * 3, -1)).
ReshapeCandidate(candidate) ==
    LET grid_size == candidate.shape[2]
        shape == <<1, grid_size * grid_size * 3, -1>>
    IN IF CanInfer(candidate, shape)
       THEN [array |-> Reshape(candidate, InferredShape(candidate, shape)),
             err |-> "none"]
       ELSE [array |-> None, err |-> "ValueError"]

\* The part of the buffer of a 3-d array that holds a[b, :, :].
Slab(a, b) ==
    SubSeq(a.data, b * a.shape[2] * a.shape[3] + 1,
           (b + 1) * a.shape[2] * a.shape[3])

RECURSIVE Slabs(_, _)
Slabs(arrays, b) ==
    IF arrays = <<>> THEN <<>>
    ELSE Slab(Head(arrays), b) \o Slabs(Tail(arrays), b)

RECURSIVE SlabsFrom(_, _)
SlabsFrom(arrays, b) ==
    IF b >= arrays[1].shape[1] THEN <<>>
    ELSE Slabs(arrays, b) \o SlabsFrom(arrays, b + 1)

RECURSIVE SumAxis1(_)
SumAxis1(arrays) ==
    IF arrays = <<>> THEN 0 ELSE Head(arrays).shape[2] + SumAxis1(Tail(arrays))

\* np.concatenate(arrays, axis=1) needs an array, and the same length on the
\* other two axes in all of them.
CanConcatenate(arrays) ==
    /\ Len(arrays) > 0
    /\ \A i \in 1..Len(arrays) :
        /\ arrays[i].shape[1] = arrays[1].shape[1]
        /\ arrays[i].shape[3] = arrays[1].shape[3]

\* np.concatenate(arrays, axis=1) of 3-d arrays.
Concatenate(arrays) ==
    [shape |-> <<arrays[1].shape[1], SumAxis1(arrays), arrays[1].shape[3]>>,
     dtype |-> arrays[1].dtype,
     data |-> SlabsFrom(arrays, 0)]

\* a[0] of a 3-d array, as the sequence of its rows.
Select0(a) ==
    [j \in 1..a.shape[2] |->
        SubSeq(a.data, (j - 1) * a.shape[3] + 1, j * a.shape[3])]

\* The loop of predict, the concatenation and the selection of image 0:
\* the candidate list handed to candidates_to_pred_bboxes.
CandidateList(outputs) ==
    LET reshaped == [i \in 1..Len(outputs) |-> ReshapeCandidate(outputs[i])]
        arrays == [i \in 1..Len(outputs) |-> reshaped[i].array]
    IN IF \E i \in 1..Len(outputs) : reshaped[i].err # "none"
       THEN [candidates |-> None, err |-> "ValueError"]
       ELSE IF ~CanConcatenate(arrays)
       THEN [candidates |-> None, err |-> "ValueError"]
       ELSE [candidates |-> Select0(Concatenate(arrays)), err |-> "none"]

(* The network *)
\* The objectness a network gives the three anchors of the cell an object
\* falls in.
Objectness == <<90, 60, 30>>

\* The shape of output s of a network: Dim(1, output_size, output_size,
\* anchors, (bbox)), or the same buffer with the last two axes merged.
OutputShape(net, s) ==
    LET g == net.input_size \div net.strides[s]
        n == 5 + net.num_classes
    IN IF net.rank = 5 THEN <<1, g, g, 3, n>> ELSE <<1, g, g, 3 * n>>

\* Output s of a network for an image with one object of class 0 at pixel
\* frame.object of the resized image: every (cell, anchor) holds the centre
\* of its cell, the shape of its anchor, the objectness and the class scores.
NetOutput(net, s, frame) ==
    LET stride == net.strides[s]
        g == net.input_size \div stride
        n == 5 + net.num_classes
        hit(r, c) == /\ c = frame.object[1] \div stride
                     /\ r = frame.object[2] \div stride
        vec(r, c, a) ==
            << c * stride + stride \div 2, r * stride + stride \div 2,
               net.anchors[(s - 1) * 6 + 2 * a + 1],
               net.anchors[(s - 1) * 6 + 2 * a + 2],
               IF hit(r, c) THEN Objectness[a + 1] ELSE 0 >>
            \o [k \in 1..net.num_classes |-> IF k = 1 THEN 100 ELSE 0]
    IN [shape |-> OutputShape(net, s), dtype |-> "float32",
        data |-> [i \in 1..(g * g * 3 * n) |->
                     vec((i - 1) \div (3 * n * g), ((i - 1) \div (3 * n)) % g,
                         ((i - 1) \div n) % 3)[((i - 1) % n) + 1]]]

\* The network of a model, fed an image of size x size pixels.
ModelNetwork(mdl, size) ==
    [input_size |-> size, strides |-> DefaultStrides(mdl.tiny).data,
     anchors |-> mdl.anchors.data, num_classes |-> mdl.num_classes,
     rank |-> 5]

\* model.predict(image_data): the list of the outputs, smallest stride first.
ModelPredict(mdl, size, frame) ==
    LET net == ModelNetwork(mdl, size)
    IN [s \in 1..Len(net.strides) |-> NetOutput(net, s, frame)]

(* From the candidate list to the detections *)
\* predict.fit_pred_bboxes_to_original for the square input of size pixels:
\* the letterbox undone (r = size / max(height, width), the padding split
\* evenly), every box clipped to the image and dropped when nothing of it
\* is left.  Corners are kept doubled so that halves stay integers.
FitPredBBoxesToOriginal(preds, shape, size) ==
    LET height == shape[1]
        width == shape[2]
        m == Max(height, width)
        pad_x == (size - (width * size) \div m) \div 2
        pad_y == (size - (height * size) \div m) \div 2
        clip(v, hi) == Max(0, Min(v, hi))
        x(p) == ((p[1] - pad_x) * m) \div size
        y(p) == ((p[2] - pad_y) * m) \div size
        w(p) == (p[3] * m) \div size
        h(p) == (p[4] * m) \div size
        x1(p) == clip(2 * x(p) - w(p), 2 * width)
        x2(p) == clip(2 * x(p) + w(p), 2 * width)
        y1(p) == clip(2 * y(p) - h(p), 2 * height)
        y2(p) == clip(2 * y(p) + h(p), 2 * height)
        fitted == [i \in 1..Len(preds) |->
                      << (x1(preds[i]) + x2(preds[i])) \div 4,
                         (y1(preds[i]) + y2(preds[i])) \div 4,
                         (x2(preds[i]) - x1(preds[i])) \div 2,
                         (y2(preds[i]) - y1(preds[i])) \div 2,
                         preds[i][5], preds[i][6] >>]
        keep == [i \in 1..Len(preds) |->
                    /\ x2(preds[i]) > x1(preds[i])
                    /\ y2(preds[i]) > y1(preds[i])]
    IN Filter(fitted, keep, 1)

\* predict from the network outputs on: the candidate list, the
\* post-processor on it and the detections in the frame of the image.
Detect(outputs, frame, size, conf_threshold, iou_threshold) ==
    LET r == CandidateList(outputs)
    IN IF r.err # "none"
       THEN [candidates |-> None, pred_bboxes |-> None, err |-> r.err]
       ELSE [candidates |-> r.candidates,
             pred_bboxes |->
                 FitPredBBoxesToOriginal(
                     PostProcess(r.candidates, conf_threshold, iou_threshold),
                     frame.shape, size),
             err |-> "none"]

(* Inputs *)
MaxInputSize == 32

PredictSizes == {32}

\* Images by their shape (height, width, channels) and the pixel of the
\* resized image their one object is at.
Frames ==
    {[shape |-> <<64, 64, 3>>, object |-> <<5, 9>>],
     [shape |-> <<64, 128, 3>>, object |-> <<20, 20>>]}

\* The thresholds the post-processor is set to in predict.
PredictThresholds == {[conf |-> 25, iou |-> 50]}

\* A converted model: the details of its input and output tensors and the
\* network behind them.
TfliteFile(t, size, num_classes, rank) ==
    LET net == [input_size |-> size, strides |-> DefaultStrides(t).data,
                anchors |-> DefaultAnchors(t).data,
                num_classes |-> num_classes, rank |-> rank]
    IN [input_details |-> <<[index |-> 0, shape |-> <<1, size, size, 3>>]>>,
        output_details |->
            [s \in 1..Len(net.strides) |->
                [index |-> 100 + s, shape |-> OutputShape(net, s)]],
        network |-> net]

TfliteFiles == {TfliteFile(FALSE, 32, 1, 5), TfliteFile(TRUE, 32, 2, 4)}

(* TFLite: load_tflite and the tensors of the interpreter *)
\* The interpreter with the indices load_tflite stores (tpu = False).
LoadTfliteResult(file) ==
    [interpreter |->
         [input_shape |-> file.input_details[1].shape,
          input_index |-> file.input_details[1].index,
          output_index |-> [i \in 1..Len(file.output_details) |->
                               file.output_details[i].index],
          output_details |-> file.output_details,
          network |-> file.network],
     input_size |-> file.input_details[1].shape[2]]

\* interpreter.get_tensor(index) after invoke on an image.
GetTensor(itp, index, frame) ==
    LET s == CHOOSE k \in 1..Len(itp.output_details) :
                 itp.output_details[k].index = index
    IN NetOutput(itp.network, s, frame)

\* [self.interpreter.get_tensor(index) for index in self.output_index]
InterpreterOutputs(itp, frame) ==
    [i \in 1..Len(itp.output_index) |->
        GetTensor(itp, itp.output_index[i], frame)]

(* Actions *)
\* tf YOLOv4.predict(frame).  Without a model self.model.predict raises.
PredictTF(frame, conf_threshold, iou_threshold) ==
    /\ input_size \in 1..MaxInputSize
    /\ IF model = None
       THEN /\ Called("predict", frame, "AttributeError")
            /\ UNCHANGED predVars
       ELSE LET outputs == ModelPredict(model, input_size, frame)
                r == Detect(outputs, frame, input_size, conf_threshold,
                            iou_threshold)
            IN /\ net_out' = outputs
               /\ candidates' = r.candidates
               /\ pred_bboxes' = r.pred_bboxes
               /\ Called("predict", frame, r.err)
    /\ UNCHANGED <<tiny, cfgVars, trainVars, modelVars>>

\* tflite YOLOv4.load_tflite(tflite_path).
LoadTflite(file) ==
    LET r == LoadTfliteResult(file)
    IN /\ interpreter' = r.interpreter
       /\ input_size' = r.input_size
       /\ Called("load_tflite", file, "none")
       /\ UNCHANGED <<tiny, anchors, strides, xyscales, trainVars, classes,
                      has_weights, model, predVars>>

\* tflite YOLOv4.predict(frame).  Without an interpreter set_tensor raises,
\* and so it does for an image that is not of the shape of the input tensor.
PredictTflite(frame, conf_threshold, iou_threshold) ==
    /\ input_size \in 1..MaxInputSize
    /\ IF interpreter = None
       THEN /\ Called("tflite.predict", frame, "AttributeError")
            /\ UNCHANGED predVars
       ELSE IF <<1, input_size, input_size, 3>> # interpreter.input_shape
       THEN /\ Called("tflite.predict", frame, "ValueError")
            /\ UNCHANGED predVars
       ELSE LET outputs == InterpreterOutputs(interpreter, frame)
                r == Detect(outputs, frame, input_size, conf_threshold,
                            iou_threshold)
            IN /\ net_out' = outputs
               /\ candidates' = r.candidates
               /\ pred_bboxes' = r.pred_bboxes
               /\ Called("tflite.predict", frame, r.err)
    /\ UNCHANGED <<tiny, cfgVars, trainVars, modelVars>>

NextPredict ==
    \/ \E size \in PredictSizes : SetInputSize(size)
    \/ SetClasses([type |-> "dict", len |-> 1])
    \/ MakeModel
    \/ \E frame \in Frames, th \in PredictThresholds :
          PredictTF(frame, th.conf, th.iou)
    \/ \E file \in TfliteFiles : LoadTflite(file)
    \/ \E frame \in Frames, th \in PredictThresholds :
          PredictTflite(frame, th.conf, th.iou)

SpecPredict == Init /\ [][NextPredict]_vars

(***************************************************************************)
(* Claims on the configuration properties (specification Spec)             *)
(***************************************************************************)
PositiveMultipleOf32(size) == size > 0 /\ size % 32 = 0

\* C1: an assignment to input_size is accepted only when the value is a
\* positive multiple of 32; every other value (zero, a negative multiple, a
\* non-multiple) raises, and the previous input_size then stays in effect.
C1_InputSizeOnlyPositiveMultiples ==
    [][last'.op = "input_size" =>
          IF PositiveMultipleOf32(last'.arg)
          THEN last'.err = "none" /\ input_size' = last'.arg
          ELSE last'.err # "none" /\ input_size' = input_size]_vars

\* C2: every assignment to anchors either stores exactly the assigned
\* values as NumScales x 3 (w, h) pairs or raises; no assignment is silently
\* accepted, ignored or corrected.
C2_AnchorsStoredOrRejected ==
    [][last'.op = "anchors" =>
          \/ last'.err # "none"
          \/ /\ anchors'.shape = <<NumScales(tiny), 3, 2>>
             /\ anchors'.data = last'.arg.data]_vars

ScaleCountsAgree ==
    /\ anchors.shape = <<NumScales(tiny), 3, 2>>
    /\ strides.shape = <<NumScales(tiny)>>
    /\ xyscales.shape = <<NumScales(tiny)>>

\* C3: after construction and any sequence of successful assignments to
\* anchors, strides and xyscales there are NumScales anchor groups of 3
\* pairs, NumScales strides and NumScales xyscale factors.
C3_ScaleCountsAgree == ~raised => ScaleCountsAgree

(***************************************************************************)
(* Claims on make_model and load_weights (specification SpecWeights)       *)
(***************************************************************************)
\* The floats of a parameter block in the order the file holds them.
FlatBlock(b) ==
    IF "scale" \in DOMAIN b
    THEN b.bias \o b.scale \o b.mean \o b.variance \o b.kernel
    ELSE b.bias \o b.kernel

RECURSIVE FlatParams(_)
FlatParams(ps) ==
    IF ps = <<>> THEN <<>> ELSE FlatBlock(Head(ps)) \o FlatParams(Tail(ps))

YoloLoadCalled == last.op = "load_weights" /\ last.arg.type = "yolo"

\* C4: a darknet import into the installed model succeeds exactly when the
\* file holds, after its header, the sum of the parameter counts of the
\* layers of the pipeline's topology variant and nothing more; then the
\* model holds the file's floats in layer construction order.  A shorter
\* file or one with bytes left over fails with a FormatError.
C4_ImportConsumesExactly ==
    (YoloLoadCalled /\ model # None) =>
        LET file == last.arg.path
            total == TotalParams(Layers(tiny, model.num_classes))
        IN /\ last.err = "none" <=>
                  file.bytes = HeaderBytes + FloatBytes * total
           /\ last.err \in {"none", "FormatError"}
           /\ last.err = "none" =>
                  FlatParams(model.params) =
                      [i \in 1..total |-> file.base + i]

C4_Witness ==
    /\ YoloLoadCalled
    /\ last.err = "none"
    /\ model # None
    /\ FlatParams(model.params)[1] = last.arg.path.base + 1

AfterMakeModel(s) ==
    [s EXCEPT !.model = MakeModelResult(s).model,
              !.has_weights = MakeModelResult(s).has_weights]

\* m is a network built on the present configuration whose parameters are
\* all as initialised and that has no loss compiled in.
IsFresh(m) ==
    /\ m # None
    /\ m.tiny = tiny
    /\ m.num_classes = classes.len
    /\ m.input_size = input_size
    /\ m.anchors = anchors
    /\ m.xyscales = xyscales
    /\ m.loss = None
    /\ m.fit = None
    /\ \A i \in 1..Len(FlatParams(m.params)) : FlatParams(m.params)[i] = 0
    /\ Len(FlatParams(m.params)) = TotalParams(Layers(tiny, classes.len))

\* C10: make_model twice leaves the state make_model once leaves, and a
\* make_model that returned has installed a freshly built model and
\* cleared the has-weights flag, whatever was installed before.
C10_MakeModelIdempotent ==
    /\ AfterMakeModel(AfterMakeModel(Self)) = AfterMakeModel(Self)
    /\ (last.op = "make_model" /\ last.err = "none") =>
           (IsFresh(model) /\ ~has_weights)

C10_Witness ==
    /\ last.op = "make_model"
    /\ last.err = "none"
    /\ IsFresh(model)
    /\ AfterMakeModel(Self) = Self

(***************************************************************************)
(* Claims on training (specifications SpecTrain and SpecAssign)            *)
(***************************************************************************)
\* C6: for positive batch_size and subdivision the normalizer compile
\* hands to the loss times the subdivision is the batch size, and the
\* normalizer is not zero.
C6_NormalizerIsBatchOverSubdivision ==
    (last.op = "compile" /\ last.err = "none"
        /\ batch_size > 0 /\ subdivision > 0) =>
        /\ model.loss.batch_size * subdivision = batch_size
        /\ model.loss.batch_size # 0

AnchorIndices == {<<s, a>> : s \in 0..(NumScales(tiny) - 1), a \in 0..2}

\* The shape-IoU of the box with configured anchor p is at most that with
\* configured anchor q, by cross-multiplication.
IoUAtMost(box, p, q) ==
    LET kp == 3 * p[1] + p[2]
        kq == 3 * q[1] + q[2]
    IN ~FracLess(
           ShapeInter(box.w, box.h, AnchorW(anchors, kq), AnchorH(anchors, kq)),
           ShapeUnion(box.w, box.h, AnchorW(anchors, kq), AnchorH(anchors, kq)),
           ShapeInter(box.w, box.h, AnchorW(anchors, kp), AnchorH(anchors, kp)),
           ShapeUnion(box.w, box.h, AnchorW(anchors, kp), AnchorH(anchors, kp)))

\* C9: the Target Assigner makes exactly one (scale, anchor) pair
\* responsible for a ground-truth box, one of maximal shape-IoU with the
\* box among all configured anchors; for a 40 x 40 box that is anchor
\* (40, 28) of the full model and anchor (37, 58) of the tiny model.
C9_ResponsibleAnchorIsBest ==
    targets # None =>
        /\ Cardinality(targets.responsible) = 1
        /\ targets.responsible \subseteq AnchorIndices
        /\ \A r \in targets.responsible : \A p \in AnchorIndices :
               IoUAtMost(targets.box, p, r)
        /\ (targets.box.w = 40 /\ targets.box.h = 40) =>
               targets.responsible = IF tiny THEN {<<0, 1>>} ELSE {<<0, 2>>}

C9_Witness ==
    /\ targets # None
    /\ targets.box.w = 40
    /\ targets.box.h = 40
    /\ targets.responsible = {<<0, 2>>}
    /\ ~tiny

(***************************************************************************)
(* Claims on the Detection Post-Processor (specification SpecNMS)          *)
(***************************************************************************)
Rows(seq) == {seq[i] : i \in 1..Len(seq)}

RECURSIVE Offset(_, _)
\* The place in the C-order buffer of the element at a 0-based index.
Offset(shape, idx) ==
    IF shape = <<>> THEN 0
    ELSE Head(idx) * Prod(Tail(shape)) + Offset(Tail(shape), Tail(idx))

At(a, idx) == a.data[1 + Offset(a.shape, idx)]

\* The attribute vector of anchor a of cell (r, c) in a network output.
CellVector(out, r, c, a) ==
    LET n == Prod(out.shape) \div (3 * out.shape[2] * out.shape[3])
    IN [k \in 1..n |->
           IF Len(out.shape) = 5 THEN At(out, <<0, r, c, a, k - 1>>)
           ELSE At(out, <<0, r, c, a * n + k - 1>>)]

RECURSIVE RowsBefore(_, _)
\* The (cell, anchor) slots of the outputs before output s.
RowsBefore(outs, s) ==
    IF s = 1 THEN 0
    ELSE RowsBefore(outs, s - 1) + 3 * outs[s - 1].shape[2] * outs[s - 1].shape[2]

\* The place of anchor a of cell (r, c) of output s in the candidate list.
PlaceOf(outs, s, r, c, a) ==
    RowsBefore(outs, s) + (r * outs[s].shape[2] + c) * 3 + a + 1

\* The (output, row, column, anchor) slots of a list of network outputs.
SlotsOf(outs) ==
    UNION {{<<s, r, c, a>> : r \in 0..(outs[s].shape[2] - 1),
                            c \in 0..(outs[s].shape[2] - 1), a \in 0..2} :
           s \in 1..Len(outs)}

PredictReturned ==
    last.op \in {"predict", "tflite.predict"} /\ last.err = "none"

\* C7: in predict of both pipelines the candidate list handed to the
\* post-processor holds every (grid cell, anchor) candidate of every output
\* exactly once, the outputs in network order and the candidates of one
\* output in row-major cell order, then anchor order; it has 3 x the sum of
\* grid_size squared rows, and every row is the attribute vector the network
\* gave that slot.
C7_CandidateListIsConcatenation ==
    PredictReturned =>
        /\ Len(candidates) = RowsBefore(net_out, Len(net_out) + 1)
        /\ \A sl \in SlotsOf(net_out) :
               candidates[PlaceOf(net_out, sl[1], sl[2], sl[3], sl[4])]
                   = CellVector(net_out[sl[1]], sl[2], sl[3], sl[4])
        /\ Cardinality({PlaceOf(net_out, sl[1], sl[2], sl[3], sl[4]) :
                           sl \in SlotsOf(net_out)}) = Len(candidates)

\* predict returned detections from the three outputs of the full network
\* on a 32 x 32 input: 3 x (16 + 4 + 1) candidates.
C7_Witness ==
    /\ last.op = "predict"
    /\ last.err = "none"
    /\ Len(net_out) = 3
    /\ net_out[1].shape = <<1, 4, 4, 3, 6>>
    /\ Len(candidates) = 63
    /\ Len(pred_bboxes) > 0

(***************************************************************************)
(* Claims on the has-weights flag (specification SpecWeights)              *)
(***************************************************************************)
RecognisedTypes == {"yolo", "tf"}

\* C11: the has-weights flag is true only when a model is installed, and a
\* load_weights call with a weights_type other than "yolo" and "tf", or made
\* while no model is installed, never sets the flag.
C11_FlagOnlySetByRecognisedLoad ==
    /\ [](has_weights => model # None)
    /\ [][(/\ last'.op = "load_weights"
           /\ \/ last'.arg.type \notin RecognisedTypes
              \/ model = None)
          => has_weights' = has_weights]_vars

(***************************************************************************)
(* Claims on a failing assignment to anchors (specification Spec)          *)
(***************************************************************************)
\* C12: an assignment to anchors that fails with an error leaves the
\* anchor set as it was: reading anchors returns the same (scales, 3, 2)
\* values as before the assignment.
C12_FailedAnchorsChangeNothing ==
    [][(last'.op = "anchors" /\ last'.err # "none") => anchors' = anchors]_vars

(***************************************************************************)
(* Claims on the batch size of training (specification SpecFit)            *)
(***************************************************************************)
\* C13: after any sequence of assignments to batch_size and subdivision
\* interleaved with load_dataset, compile and fit calls, the micro-batch
\* size of the Dataset of the latest load_dataset, the batch size of the
\* loss of the latest compile and the batch size fit passes are one value.
C13_OneMicroBatchSize ==
    (last.op = "fit" /\ last.err = "none") =>
        /\ model.fit.batch_size = dataset.batch_size
        /\ model.fit.batch_size = model.loss.batch_size

====
